---- MODULE Spec2Model ----
(***************************************************************************)
(* Load-aware batcher (batcher.go): the accumulator guarded by b.mu, the   *)
(* timeout timer, the flush path that runs the handler outside the lock,  *)
(* the feedback ring and the controller goroutine that resizes            *)
(* currentBatchSize.                                                       *)
(*                                                                         *)
(* Numbers: a load score is an integer in units of 1/10000; CPULoad,       *)
(* ErrorRate and AdjustmentFactor are integers in units of 1/100.          *)
(* Goroutines: clients 1..NClients call Add/Flush/Close; every timer       *)
(* created by time.AfterFunc is a goroutine id above NClients; the         *)
(* controller goroutine is id 0.                                           *)
(***************************************************************************)
EXTENDS Integers, Sequences, FiniteSets, TLC

\* ------------------------------------------------------------- bounds
NClients == 2
MaxOps == 2
MaxTicks == 6

\* ------------------------------------------------- program constants
DefaultMinBatchSize == 1
DefaultMaxBatchSize == 1000
DefaultAdjustmentFactor == 20
maxFeedbackLen == 10

Clients == 1 .. NClients
\* every call can arm at most one timer
MaxCalls == MaxOps + 1
TimerIds == (NClients + 1) .. (NClients + MaxCalls)
Threads == 1 .. (NClients + MaxCalls)

Min2(a, b) == IF a < b THEN a ELSE b
Max2(a, b) == IF a > b THEN a ELSE b

\* ------------------------------------------------------ error values
NilErr == [e |-> "nil", n |-> 0]
ErrClosed == [e |-> "ErrClosed", n |-> 0]
\* the error value returned by the n-th handler invocation
HandlerErr(n) == [e |-> "handler", n |-> n]

\* ------------------------------------------------------- LoadFeedback
\* Feedback records a handler returns in this model: an idle backend, a
\* backend in the dead band and an overloaded one.
LowFb == [cpu |-> 10, q |-> 5, er |-> 0, locks |-> 2]
MidFb == [cpu |-> 50, q |-> 50, er |-> 5, locks |-> 20]
HighFb == [cpu |-> 90, q |-> 100, er |-> 50, locks |-> 0]
Feedbacks == {LowFb, HighFb}

\* mutant: the weights of the project summary (CPU 40%, errors 30%, queue
\* 20%, locks 10%)
LoadScoreSummaryWeights(lf) ==
    LET score == lf.cpu * 40
                 + Min2(lf.q, 100) * 20
                 + lf.er * 30
                 + Min2(lf.locks * 2, 100) * 10
    IN  Min2(score, 10000)

LoadScore(lf) ==
    LET score == lf.cpu * 60
                 + Min2(lf.q, 100) * 15
                 + lf.er * 15
                 + Min2(lf.locks * 2, 100) * 10
    IN  Min2(score, 10000)

\* --------------------------------------------------------------- New
\* Configurations handed to New; 0 stands for an unset field.
RawConfigs ==
    [InitialBatchSize : {2, 3}, MinBatchSize : {0}, MaxBatchSize : {3},
     Timeout : {0, 1}, HandlerFunc : {TRUE}, AdjustmentFactor : {50}]

\* mutant: New does not compare MinBatchSize with MaxBatchSize
NewNoMinMaxCheck(raw) ==
    LET min == IF raw.MinBatchSize <= 0 THEN DefaultMinBatchSize ELSE raw.MinBatchSize
        max == IF raw.MaxBatchSize <= 0 THEN DefaultMaxBatchSize ELSE raw.MaxBatchSize
        ini == Min2(Max2(raw.InitialBatchSize, min), max)
        fac == IF raw.AdjustmentFactor <= 0 THEN DefaultAdjustmentFactor
               ELSE raw.AdjustmentFactor
        bad == \/ raw.InitialBatchSize <= 0
               \/ ~raw.HandlerFunc
    IN  [err |-> IF bad THEN "ErrInvalidConfig" ELSE "nil",
         cfg |-> [InitialBatchSize |-> ini, MinBatchSize |-> min, MaxBatchSize |-> max,
                  Timeout |-> raw.Timeout, AdjustmentFactor |-> fac]]

New(raw) ==
    LET min == IF raw.MinBatchSize <= 0 THEN DefaultMinBatchSize ELSE raw.MinBatchSize
        max == IF raw.MaxBatchSize <= 0 THEN DefaultMaxBatchSize ELSE raw.MaxBatchSize
        ini == Min2(Max2(raw.InitialBatchSize, min), max)
        fac == IF raw.AdjustmentFactor <= 0 THEN DefaultAdjustmentFactor
               ELSE raw.AdjustmentFactor
        bad == \/ raw.InitialBatchSize <= 0
               \/ min > max
               \/ ~raw.HandlerFunc
    IN  [err |-> IF bad THEN "ErrInvalidConfig" ELSE "nil",
         cfg |-> [InitialBatchSize |-> ini, MinBatchSize |-> min, MaxBatchSize |-> max,
                  Timeout |-> raw.Timeout, AdjustmentFactor |-> fac]]

\* -------------------------------------------------------------- state
VARIABLES
    cfg,              \* b.cfg after New's defaults and clamping
    batch,            \* b.batch: the pending buffer
    timer,            \* b.timer: 0 (nil) or the goroutine id of the timer
    closed,           \* b.closed
    currentBatchSize, \* b.currentBatchSize
    recentFeedback,   \* b.recentFeedback: the feedback ring
    stopAdjust,       \* TRUE once close(b.stopAdjust) ran
    ctl,              \* controller goroutine: "run" or "exited"
    mu,               \* b.mu: {} when free, {id} when goroutine id holds it
    pc,               \* pc[t]: where goroutine t is
    op,               \* op[t]: the call goroutine t is executing
    held,             \* held[t]: the batch t detached and has not yet handed over
    fbk,              \* fbk[t]: the non-nil feedback the handler returned to t
    herr,             \* herr[t]: the error the handler returned to t
    handled,          \* history: the handler invocations, in the order they started
    hist,             \* history: hist[c] the calls client c completed, with results
    appended,         \* history: the items in the order they were appended
    calls,            \* the number of calls the clients may still make
    ticks             \* history: the controller ticks taken with a non-empty ring,
                      \* counted up to MaxTicks; -1 in runs that do not count them

vars == <<cfg, batch, timer, closed, currentBatchSize, recentFeedback, stopAdjust,
          ctl, mu, pc, op, held, fbk, herr, handled, hist, appended, calls, ticks>>

NoOp == [kind |-> "none", item |-> <<0, 0>>]
TimerOp == [kind |-> "Timer", item |-> <<0, 0>>]

\* the batcher New returns, before any call
Constructed ==
    /\ \E raw \in RawConfigs :
          /\ New(raw).err = "nil"
          /\ cfg = New(raw).cfg
    /\ batch = <<>>
    /\ timer = 0
    /\ closed = FALSE
    /\ currentBatchSize = cfg.InitialBatchSize
    /\ recentFeedback = <<>>
    /\ stopAdjust = FALSE
    /\ ctl = "run"
    /\ mu = {}
    /\ pc = [t \in Threads |-> IF t \in Clients THEN "idle" ELSE "unarmed"]
    /\ op = [t \in Threads |-> IF t \in Clients THEN NoOp ELSE TimerOp]
    /\ held = [t \in Threads |-> <<>>]
    /\ fbk = [t \in Threads |-> LowFb]
    /\ herr = [t \in Threads |-> NilErr]
    /\ handled = <<>>
    /\ hist = [c \in Clients |-> <<>>]
    /\ appended = <<>>
    /\ ticks = -1

Init == Constructed /\ calls = MaxOps

\* the same batcher, with clients that make one call more
DeepInit == Constructed /\ calls = MaxCalls

\* ---------------------------------------------------- internal methods
\* mutant: the detach hands the buffer over without replacing it
detachKeepsBuffer(b) == [out |-> b, batch |-> b]

\* mutant: the detach hands the items over in reverse order
detachReversed(b) ==
    [out |-> [i \in 1 .. Len(b) |-> b[Len(b) + 1 - i]], batch |-> <<>>]

detachBatchLocked(b) ==
    IF Len(b) = 0 THEN [out |-> <<>>, batch |-> b]
    ELSE [out |-> b, batch |-> <<>>]

\* mutant: the handle is cleared without stopping the timer
stopTimerNoStop(tm, p) == [timer |-> 0, pc |-> p]

\* mutant: the timer is stopped and the handle kept
stopTimerKeepsHandle(tm, p) ==
    [timer |-> tm,
     pc |-> IF tm # 0 /\ p[tm] = "armed" THEN [p EXCEPT ![tm] = "stopped"] ELSE p]

\* timer.Stop() keeps a timer that has not fired from firing; a timer that
\* already fired keeps running its callback.
stopTimerLocked(tm, p) ==
    IF tm # 0
    THEN [timer |-> 0, pc |-> IF p[tm] = "armed" THEN [p EXCEPT ![tm] = "stopped"] ELSE p]
    ELSE [timer |-> tm, pc |-> p]

\* mutant: a handle is stored and no callback is scheduled
startTimerNoArm(p) ==
    [timer |-> NClients + 1 + Cardinality({t \in TimerIds : p[t] # "unarmed"}), pc |-> p]

\* mutant: the timer returned by time.AfterFunc is not stored in b.timer
startTimerNoHandle(p) ==
    LET id == NClients + 1 + Cardinality({t \in TimerIds : p[t] # "unarmed"})
    IN  [timer |-> 0, pc |-> [p EXCEPT ![id] = "armed"]]

\* time.AfterFunc creates a new timer; its callback runs b.Flush.
startTimerLocked(p) ==
    LET id == NClients + 1 + Cardinality({t \in TimerIds : p[t] # "unarmed"})
    IN  [timer |-> id, pc |-> [p EXCEPT ![id] = "armed"]]

\* mutant: a full ring drops the new record instead of the oldest one
recordFeedbackDropsNewest(ring, feedback) ==
    LET r == Append(ring, feedback)
    IN  IF Len(r) > maxFeedbackLen THEN SubSeq(r, 1, maxFeedbackLen) ELSE r

recordFeedback(ring, feedback) ==
    LET r == Append(ring, feedback)
    IN  IF Len(r) > maxFeedbackLen THEN Tail(r) ELSE r

RECURSIVE SumScores(_)
SumScores(ring) ==
    IF ring = <<>> THEN 0 ELSE LoadScore(Head(ring)) + SumScores(Tail(ring))

\* mutant: the new size is not clamped to [MinBatchSize, MaxBatchSize]
adjustNoClamp(cur, ring) ==
    IF Len(ring) = 0 THEN cur
    ELSE LET sum == SumScores(ring)
             n == Len(ring)
             step == Max2((cur * cfg.AdjustmentFactor) \div 100, 1)
         IN  IF sum < 2500 * n THEN cur + step
             ELSE IF sum > 5500 * n THEN cur - step
             ELSE cur

\* mutant: the step is not raised to 1 when cur * factor is below 1
adjustNoFloor(cur, ring) ==
    IF Len(ring) = 0 THEN cur
    ELSE LET sum == SumScores(ring)
             n == Len(ring)
             step == (cur * cfg.AdjustmentFactor) \div 100
             newSize == IF sum < 2500 * n THEN cur + step
                        ELSE IF sum > 5500 * n THEN cur - step
                        ELSE cur
             lo == IF newSize < cfg.MinBatchSize THEN cfg.MinBatchSize ELSE newSize
         IN  IF lo > cfg.MaxBatchSize THEN cfg.MaxBatchSize ELSE lo

\* mutant: the low-load branch is missing
adjustIgnoresLowBand(cur, ring) ==
    IF Len(ring) = 0 THEN cur
    ELSE LET sum == SumScores(ring)
             n == Len(ring)
             step == Max2((cur * cfg.AdjustmentFactor) \div 100, 1)
             newSize == IF sum > 5500 * n THEN cur - step ELSE cur
             lo == IF newSize < cfg.MinBatchSize THEN cfg.MinBatchSize ELSE newSize
         IN  IF lo > cfg.MaxBatchSize THEN cfg.MaxBatchSize ELSE lo

\* mutant: the sum is divided by the window size, not by the number of records
adjustAveragesOverWindow(cur, ring) ==
    IF Len(ring) = 0 THEN cur
    ELSE LET sum == SumScores(ring)
             n == maxFeedbackLen
             step == Max2((cur * cfg.AdjustmentFactor) \div 100, 1)
             newSize == IF sum < 2500 * n THEN cur + step
                        ELSE IF sum > 5500 * n THEN cur - step
                        ELSE cur
             lo == IF newSize < cfg.MinBatchSize THEN cfg.MinBatchSize ELSE newSize
         IN  IF lo > cfg.MaxBatchSize THEN cfg.MaxBatchSize ELSE lo

\* mutant: the thresholds belong to the outer bands
adjustInclusiveBands(cur, ring) ==
    IF Len(ring) = 0 THEN cur
    ELSE LET sum == SumScores(ring)
             n == Len(ring)
             step == Max2((cur * cfg.AdjustmentFactor) \div 100, 1)
             newSize == IF sum <= 2500 * n THEN cur + step
                        ELSE IF sum >= 5500 * n THEN cur - step
                        ELSE cur
             lo == IF newSize < cfg.MinBatchSize THEN cfg.MinBatchSize ELSE newSize
         IN  IF lo > cfg.MaxBatchSize THEN cfg.MaxBatchSize ELSE lo

adjustBatchSize(cur, ring) ==
    IF Len(ring) = 0 THEN cur
    ELSE LET sum == SumScores(ring)
             n == Len(ring)
             step == Max2((cur * cfg.AdjustmentFactor) \div 100, 1)
             newSize == IF sum < 2500 * n THEN cur + step
                        ELSE IF sum > 5500 * n THEN cur - step
                        ELSE cur
             lo == IF newSize < cfg.MinBatchSize THEN cfg.MinBatchSize ELSE newSize
         IN  IF lo > cfg.MaxBatchSize THEN cfg.MaxBatchSize ELSE lo

\* ------------------------------------------------------------ helpers
NAdds(c) == Cardinality({i \in 1 .. Len(hist[c]) : hist[c][i].kind = "Add"})
\* Client c is between calls and may make another one. Clients are
\* interchangeable, so client c + 1 makes its first call only after client c
\* has made one; calls bounds the calls made in a run.
CanStart(c) ==
    /\ c \in Clients
    /\ pc[c] = "idle"
    /\ \A d \in Clients : d < c => (hist[d] # <<>> \/ pc[d] # "idle")
    /\ calls > 0

\* goroutine t returns e from the call it is executing; p is pc before the return
Return(t, call, e, p) ==
    /\ pc' = [p EXCEPT ![t] = IF t \in Clients THEN "idle" ELSE "done"]
    /\ hist' = IF t \in Clients
               THEN [hist EXCEPT ![t] = Append(@, [kind |-> call.kind, item |-> call.item,
                                                    res |-> e])]
               ELSE hist
    /\ op' = IF t \in Clients THEN [op EXCEPT ![t] = NoOp] ELSE op
    /\ held' = [held EXCEPT ![t] = <<>>]
    /\ fbk' = [fbk EXCEPT ![t] = LowFb]
    /\ herr' = [herr EXCEPT ![t] = NilErr]

\* -------------------------------------------------------------- Add
\* mutant: every Add that does not flush arms a timer
AddArmsAlways(c) ==
    /\ CanStart(c)
    /\ mu = {}
    /\ calls' = calls - 1
    /\ LET item == <<c, NAdds(c) + 1>>
           call == [kind |-> "Add", item |-> item]
       IN  IF closed
           THEN /\ Return(c, call, ErrClosed, pc)
                /\ UNCHANGED <<batch, timer, appended>>
           ELSE LET nb == Append(batch, item)
                IN  /\ appended' = Append(appended, item)
                    /\ IF Len(nb) >= currentBatchSize
                       THEN LET d == detachBatchLocked(nb)
                                s == stopTimerLocked(timer, pc)
                            IN  /\ batch' = d.batch
                                /\ held' = [held EXCEPT ![c] = d.out]
                                /\ timer' = s.timer
                                /\ pc' = [s.pc EXCEPT ![c] = "call"]
                                /\ op' = [op EXCEPT ![c] = call]
                                /\ UNCHANGED <<hist, fbk, herr>>
                       ELSE /\ batch' = nb
                            /\ IF cfg.Timeout > 0
                               THEN LET s == startTimerLocked(pc)
                                    IN  /\ timer' = s.timer
                                        /\ Return(c, call, NilErr, s.pc)
                               ELSE /\ timer' = timer
                                    /\ Return(c, call, NilErr, pc)
    /\ UNCHANGED <<cfg, closed, currentBatchSize, recentFeedback, stopAdjust, ctl, mu,
                   handled, ticks>>

\* mutant: Add flushes when the buffer exceeds currentBatchSize
AddFlushesAbove(c) ==
    /\ CanStart(c)
    /\ mu = {}
    /\ calls' = calls - 1
    /\ LET item == <<c, NAdds(c) + 1>>
           call == [kind |-> "Add", item |-> item]
       IN  IF closed
           THEN /\ Return(c, call, ErrClosed, pc)
                /\ UNCHANGED <<batch, timer, appended>>
           ELSE LET wasEmpty == Len(batch) = 0
                    nb == Append(batch, item)
                IN  /\ appended' = Append(appended, item)
                    /\ IF Len(nb) > currentBatchSize
                       THEN LET d == detachBatchLocked(nb)
                                s == stopTimerLocked(timer, pc)
                            IN  /\ batch' = d.batch
                                /\ held' = [held EXCEPT ![c] = d.out]
                                /\ timer' = s.timer
                                /\ pc' = [s.pc EXCEPT ![c] = "call"]
                                /\ op' = [op EXCEPT ![c] = call]
                                /\ UNCHANGED <<hist, fbk, herr>>
                       ELSE /\ batch' = nb
                            /\ IF wasEmpty /\ cfg.Timeout > 0 /\ timer = 0
                               THEN LET s == startTimerLocked(pc)
                                    IN  /\ timer' = s.timer
                                        /\ Return(c, call, NilErr, s.pc)
                               ELSE /\ timer' = timer
                                    /\ Return(c, call, NilErr, pc)
    /\ UNCHANGED <<cfg, closed, currentBatchSize, recentFeedback, stopAdjust, ctl, mu,
                   handled, ticks>>

\* Every action below that reads or writes the state guarded by b.mu is one
\* critical section: it needs the mutex free, and leaves it free.
Add(c) ==
    /\ CanStart(c)
    /\ mu = {}
    /\ calls' = calls - 1
    /\ LET item == <<c, NAdds(c) + 1>>
           call == [kind |-> "Add", item |-> item]
       IN  IF closed
           THEN /\ Return(c, call, ErrClosed, pc)
                /\ UNCHANGED <<batch, timer, appended>>
           ELSE LET wasEmpty == Len(batch) = 0
                    nb == Append(batch, item)
                IN  /\ appended' = Append(appended, item)
                    /\ IF Len(nb) >= currentBatchSize
                       THEN LET d == detachBatchLocked(nb)
                                s == stopTimerLocked(timer, pc)
                            IN  /\ batch' = d.batch
                                /\ held' = [held EXCEPT ![c] = d.out]
                                /\ timer' = s.timer
                                /\ pc' = [s.pc EXCEPT ![c] = "call"]
                                /\ op' = [op EXCEPT ![c] = call]
                                /\ UNCHANGED <<hist, fbk, herr>>
                       ELSE /\ batch' = nb
                            /\ IF wasEmpty /\ cfg.Timeout > 0 /\ timer = 0
                               THEN LET s == startTimerLocked(pc)
                                    IN  /\ timer' = s.timer
                                        /\ Return(c, call, NilErr, s.pc)
                               ELSE /\ timer' = timer
                                    /\ Return(c, call, NilErr, pc)
    /\ UNCHANGED <<cfg, closed, currentBatchSize, recentFeedback, stopAdjust, ctl, mu,
                   handled, ticks>>

\* ------------------------------------------------------------- Flush
\* mutant: Flush does not return early on an empty buffer
FlushLockedNoEmptyCheck(t, call) ==
    /\ mu = {}
    /\ batch' = detachBatchLocked(batch).batch
    /\ held' = [held EXCEPT ![t] = detachBatchLocked(batch).out]
    /\ timer' = stopTimerLocked(timer, pc).timer
    /\ pc' = [stopTimerLocked(timer, pc).pc EXCEPT ![t] = "call"]
    /\ op' = [op EXCEPT ![t] = call]
    /\ UNCHANGED <<hist, fbk, herr>>
    /\ UNCHANGED <<cfg, closed, currentBatchSize, recentFeedback, stopAdjust, ctl, mu,
                   handled, appended, ticks>>

\* mutant: Flush detaches the buffer and returns without calling the handler
FlushLockedDrops(t, call) ==
    /\ mu = {}
    /\ batch' = <<>>
    /\ timer' = stopTimerLocked(timer, pc).timer
    /\ Return(t, call, NilErr, stopTimerLocked(timer, pc).pc)
    /\ UNCHANGED <<cfg, closed, currentBatchSize, recentFeedback, stopAdjust, ctl, mu,
                   handled, appended, ticks>>

\* mutant: Flush detaches the buffer and leaves the timer running
FlushLockedKeepsTimer(t, call) ==
    /\ mu = {}
    /\ IF Len(batch) = 0
       THEN /\ Return(t, call, NilErr, pc)
            /\ UNCHANGED <<batch, timer>>
       ELSE /\ batch' = detachBatchLocked(batch).batch
            /\ held' = [held EXCEPT ![t] = detachBatchLocked(batch).out]
            /\ timer' = timer
            /\ pc' = [pc EXCEPT ![t] = "call"]
            /\ op' = [op EXCEPT ![t] = call]
            /\ UNCHANGED <<hist, fbk, herr>>
    /\ UNCHANGED <<cfg, closed, currentBatchSize, recentFeedback, stopAdjust, ctl, mu,
                   handled, appended, ticks>>

\* b.Flush up to its unlock, run by goroutine t as (part of) the call `call`
FlushLocked(t, call) ==
    /\ mu = {}
    /\ IF Len(batch) = 0
       THEN /\ Return(t, call, NilErr, pc)
            /\ UNCHANGED <<batch, timer>>
       ELSE LET d == detachBatchLocked(batch)
                s == stopTimerLocked(timer, pc)
            IN  /\ batch' = d.batch
                /\ held' = [held EXCEPT ![t] = d.out]
                /\ timer' = s.timer
                /\ pc' = [s.pc EXCEPT ![t] = "call"]
                /\ op' = [op EXCEPT ![t] = call]
                /\ UNCHANGED <<hist, fbk, herr>>
    /\ UNCHANGED <<cfg, closed, currentBatchSize, recentFeedback, stopAdjust, ctl, mu,
                   handled, appended, ticks>>

\* a client calls Flush
Flush(c) ==
    /\ CanStart(c)
    /\ calls' = calls - 1
    /\ FlushLocked(c, [kind |-> "Flush", item |-> <<0, 0>>])

\* mutant: Close returns after the controller exited, without a final Flush
CloseSkipsFlush(c) ==
    /\ c \in Clients
    /\ pc[c] = "cflush"
    /\ Return(c, op[c], NilErr, pc)
    /\ UNCHANGED <<cfg, batch, timer, closed, currentBatchSize, recentFeedback,
                   stopAdjust, ctl, mu, handled, appended, calls, ticks>>

\* the final Flush of Close
CloseFlush(c) ==
    /\ c \in Clients
    /\ pc[c] = "cflush"
    /\ FlushLocked(c, op[c])
    /\ UNCHANGED calls

\* mutant: the callback returns without flushing
TimerCallbackIdle(t) ==
    /\ t \in TimerIds
    /\ pc[t] = "fired"
    /\ pc' = [pc EXCEPT ![t] = "done"]
    /\ UNCHANGED <<cfg, batch, timer, closed, currentBatchSize, recentFeedback,
                   stopAdjust, ctl, mu, op, held, fbk, herr, handled, hist, appended, calls, ticks>>

\* the callback of a timer that fired: _ = b.Flush(context.Background())
TimerFlush(t) ==
    /\ t \in TimerIds
    /\ pc[t] = "fired"
    /\ FlushLocked(t, TimerOp)
    /\ UNCHANGED calls

\* ------------------------------------------------------ processBatch
Pending == [e |-> "pending", n |-> 0]

\* mutant: the handler is entered only when no other invocation is running,
\* as if it ran under the mutex
HandlerCallExclusive(t) ==
    /\ pc[t] = "call"
    /\ \A s \in Threads : pc[s] # "run"
    /\ pc' = [pc EXCEPT ![t] = "run"]
    /\ handled' = Append(handled, [batch |-> held[t], by |-> t, kind |-> op[t].kind,
                                   err |-> Pending])
    /\ UNCHANGED <<cfg, batch, timer, closed, currentBatchSize, recentFeedback,
                   stopAdjust, ctl, mu, op, held, fbk, herr, hist, appended, calls, ticks>>

\* the handler is entered with the detached batch
HandlerCall(t) ==
    /\ pc[t] = "call"
    /\ pc' = [pc EXCEPT ![t] = "run"]
    /\ handled' = Append(handled, [batch |-> held[t], by |-> t, kind |-> op[t].kind,
                                   err |-> Pending])
    /\ UNCHANGED <<cfg, batch, timer, closed, currentBatchSize, recentFeedback,
                   stopAdjust, ctl, mu, op, held, fbk, herr, hist, appended, calls, ticks>>

\* index in handled of the invocation goroutine t is in
Invocation(t) ==
    CHOOSE i \in 1 .. Len(handled) :
        /\ handled[i].by = t
        /\ \A j \in (i + 1) .. Len(handled) : handled[j].by # t

\* the handler returns feedback (or nil) and an error (or nil); with nil
\* feedback processBatch returns the error at once
HandlerReturn(t) ==
    /\ pc[t] = "run"
    /\ \E e \in {NilErr, HandlerErr(Invocation(t))} :
          /\ handled' = [handled EXCEPT ![Invocation(t)].err = e]
          /\ \/ \E f \in Feedbacks :
                   /\ fbk' = [fbk EXCEPT ![t] = f]
                   /\ herr' = [herr EXCEPT ![t] = e]
                   /\ pc' = [pc EXCEPT ![t] = "rec"]
                   /\ UNCHANGED <<hist, op, held>>
             \/ Return(t, op[t], e, pc)
    /\ UNCHANGED <<cfg, batch, timer, closed, currentBatchSize, recentFeedback,
                   stopAdjust, ctl, mu, appended, calls, ticks>>

\* mutant: processBatch records the feedback and returns nil instead of err
RecordAndReturnNil(t) ==
    /\ pc[t] = "rec"
    /\ mu = {}
    /\ recentFeedback' = recordFeedback(recentFeedback, fbk[t])
    /\ Return(t, op[t], NilErr, pc)
    /\ UNCHANGED <<cfg, batch, timer, closed, currentBatchSize, stopAdjust, ctl, mu,
                   handled, appended, calls, ticks>>

\* mutant: processBatch records the feedback only when the handler succeeded
RecordOnlyOnSuccess(t) ==
    /\ pc[t] = "rec"
    /\ mu = {}
    /\ recentFeedback' = IF herr[t] = NilErr
                         THEN recordFeedback(recentFeedback, fbk[t])
                         ELSE recentFeedback
    /\ Return(t, op[t], herr[t], pc)
    /\ UNCHANGED <<cfg, batch, timer, closed, currentBatchSize, stopAdjust, ctl, mu,
                   handled, appended, calls, ticks>>

\* mutant: processBatch puts the batch of a failed handler call back
RecordAndRequeue(t) ==
    /\ pc[t] = "rec"
    /\ mu = {}
    /\ recentFeedback' = recordFeedback(recentFeedback, fbk[t])
    /\ batch' = IF herr[t] = NilErr THEN batch ELSE held[t] \o batch
    /\ Return(t, op[t], herr[t], pc)
    /\ UNCHANGED <<cfg, timer, closed, currentBatchSize, stopAdjust, ctl, mu,
                   handled, appended, calls, ticks>>

\* b.mu.Lock(); b.recordFeedback(*feedback); b.mu.Unlock(); return err
RecordAndReturn(t) ==
    /\ pc[t] = "rec"
    /\ mu = {}
    /\ recentFeedback' = recordFeedback(recentFeedback, fbk[t])
    /\ Return(t, op[t], herr[t], pc)
    /\ UNCHANGED <<cfg, batch, timer, closed, currentBatchSize, stopAdjust, ctl, mu,
                   handled, appended, calls, ticks>>

\* -------------------------------------------------------------- timer
\* the runtime fires an armed timer and starts its callback goroutine
Fire(t) ==
    /\ t \in TimerIds
    /\ pc[t] = "armed"
    /\ pc' = [pc EXCEPT ![t] = "fired"]
    /\ UNCHANGED <<cfg, batch, timer, closed, currentBatchSize, recentFeedback,
                   stopAdjust, ctl, mu, op, held, fbk, herr, handled, hist, appended, calls, ticks>>

\* -------------------------------------------------------------- Close
\* mutant: Close stops the controller without setting b.closed
CloseLeavesOpen(c) ==
    /\ CanStart(c)
    /\ mu = {}
    /\ calls' = calls - 1
    /\ stopAdjust' = TRUE
    /\ pc' = [pc EXCEPT ![c] = "cwait"]
    /\ op' = [op EXCEPT ![c] = [kind |-> "Close", item |-> <<0, 0>>]]
    /\ UNCHANGED <<cfg, batch, timer, closed, currentBatchSize, recentFeedback, ctl, mu,
                   held, fbk, herr, handled, hist, appended, ticks>>

\* mutant: Close does not look at b.closed
CloseNoCheck(c) ==
    /\ CanStart(c)
    /\ mu = {}
    /\ calls' = calls - 1
    /\ closed' = TRUE
    /\ stopAdjust' = TRUE
    /\ pc' = [pc EXCEPT ![c] = "cwait"]
    /\ op' = [op EXCEPT ![c] = [kind |-> "Close", item |-> <<0, 0>>]]
    /\ UNCHANGED <<cfg, batch, timer, currentBatchSize, recentFeedback, ctl, mu,
                   held, fbk, herr, handled, hist, appended, ticks>>

\* mutant: Close sets b.closed and does not close the stop channel
CloseNoStopSignal(c) ==
    /\ CanStart(c)
    /\ mu = {}
    /\ calls' = calls - 1
    /\ LET call == [kind |-> "Close", item |-> <<0, 0>>]
       IN  IF closed
           THEN /\ Return(c, call, NilErr, pc)
                /\ UNCHANGED <<closed, stopAdjust>>
           ELSE /\ closed' = TRUE
                /\ stopAdjust' = stopAdjust
                /\ pc' = [pc EXCEPT ![c] = "cwait"]
                /\ op' = [op EXCEPT ![c] = call]
                /\ UNCHANGED <<hist, held, fbk, herr>>
    /\ UNCHANGED <<cfg, batch, timer, currentBatchSize, recentFeedback, ctl, mu,
                   handled, appended, ticks>>

\* Close up to close(b.stopAdjust) and b.adjustTicker.Stop()
Close(c) ==
    /\ CanStart(c)
    /\ mu = {}
    /\ calls' = calls - 1
    /\ LET call == [kind |-> "Close", item |-> <<0, 0>>]
       IN  IF closed
           THEN /\ Return(c, call, NilErr, pc)
                /\ UNCHANGED <<closed, stopAdjust>>
           ELSE /\ closed' = TRUE
                /\ stopAdjust' = TRUE
                /\ pc' = [pc EXCEPT ![c] = "cwait"]
                /\ op' = [op EXCEPT ![c] = call]
                /\ UNCHANGED <<hist, held, fbk, herr>>
    /\ UNCHANGED <<cfg, batch, timer, currentBatchSize, recentFeedback, ctl, mu,
                   handled, appended, ticks>>

\* mutant: Close goes on to its final flush without b.wg.Wait()
CloseNoWait(c) ==
    /\ pc[c] = "cwait"
    /\ pc' = [pc EXCEPT ![c] = "cflush"]
    /\ UNCHANGED <<cfg, batch, timer, closed, currentBatchSize, recentFeedback,
                   stopAdjust, ctl, mu, op, held, fbk, herr, handled, hist, appended, calls, ticks>>

\* b.wg.Wait() returns once the controller goroutine is done
CloseWait(c) ==
    /\ pc[c] = "cwait"
    /\ ctl = "exited"
    /\ pc' = [pc EXCEPT ![c] = "cflush"]
    /\ UNCHANGED <<cfg, batch, timer, closed, currentBatchSize, recentFeedback,
                   stopAdjust, ctl, mu, op, held, fbk, herr, handled, hist, appended, calls, ticks>>

\* -------------------------------------------------- adjustBatchSizeLoop
\* the select receives a tick from adjustTicker.C and runs adjustBatchSize
CtlTick ==
    /\ ctl = "run"
    /\ mu = {}
    /\ currentBatchSize' = adjustBatchSize(currentBatchSize, recentFeedback)
    /\ ticks' = IF ticks >= 0 /\ Len(recentFeedback) > 0 THEN Min2(ticks + 1, MaxTicks)
                ELSE ticks
    /\ UNCHANGED <<cfg, batch, timer, closed, recentFeedback, stopAdjust, ctl, mu, pc,
                   op, held, fbk, herr, handled, hist, appended, calls>>

\* the select receives from the closed stopAdjust channel
CtlExit ==
    /\ ctl = "run"
    /\ stopAdjust
    /\ ctl' = "exited"
    /\ UNCHANGED <<cfg, batch, timer, closed, currentBatchSize, recentFeedback,
                   stopAdjust, mu, pc, op, held, fbk, herr, handled, hist, appended, calls, ticks>>

\* ------------------------------------------------------ specification
ClientStep ==
    \E c \in Clients :
        \/ Add(c)
        \/ Flush(c)
        \/ Close(c)
        \/ CloseWait(c)
        \/ CloseFlush(c)

FlushStep ==
    \E t \in Threads :
        \/ HandlerCall(t)
        \/ HandlerReturn(t)
        \/ RecordAndReturn(t)

TimerStep ==
    \E t \in TimerIds :
        \/ Fire(t)
        \/ TimerFlush(t)

CtlStep == CtlTick \/ CtlExit

Next == ClientStep \/ FlushStep \/ TimerStep \/ CtlStep

Spec == Init /\ [][Next]_vars

DeepSpec == DeepInit /\ [][Next]_vars

\* Every goroutine that can take a step of a call already begun, every timer
\* callback and the runtime's timer eventually run; nothing obliges a client to
\* make another call or the ticker to tick.
Progress ==
    \/ \E t \in Threads :
          \/ HandlerCall(t)
          \/ HandlerReturn(t)
          \/ RecordAndReturn(t)
    \/ \E t \in TimerIds :
          \/ Fire(t)
          \/ TimerFlush(t)
    \/ \E c \in Clients :
          \/ CloseWait(c)
          \/ CloseFlush(c)
    \/ CtlExit

\* the runs the liveness claims are checked on: a batcher with a timeout
LiveInit == Init /\ cfg.Timeout > 0 /\ cfg.InitialBatchSize = 2

LiveSpec == LiveInit /\ [][Next]_vars /\ WF_vars(Progress)

\* Producers and a final Flush (TestBatcher_Concurrent): clients call Add
\* concurrently while no Flush has been called, and a client calls Flush once
\* every call made before has returned. No timeout is configured.
NoFlushYet ==
    /\ \A c \in Clients : op[c].kind # "Flush"
    /\ \A c \in Clients : \A i \in 1 .. Len(hist[c]) : hist[c][i].kind # "Flush"

ProducerAdd(c) == NoFlushYet /\ Add(c)

FlushAfterAdds(c) == (\A d \in Clients : pc[d] = "idle") /\ Flush(c)

DrainNext ==
    \/ \E c \in Clients :
          \/ ProducerAdd(c)
          \/ FlushAfterAdds(c)
    \/ FlushStep
    \/ CtlTick

DrainInit == DeepInit /\ cfg.Timeout = 0

DrainSpec == DrainInit /\ [][DrainNext]_vars

\* Controller runs: a handler that returns the same feedback record on every
\* call, and the controller ticking; ticks taken with a non-empty ring are
\* counted. Each flush is reduced to what the controller sees of it: the
\* record processBatch stores in the ring.
CpuHighFb == [cpu |-> 90, q |-> 0, er |-> 0, locks |-> 0]
IdleFb == [cpu |-> 0, q |-> 0, er |-> 0, locks |-> 0]
CpuIdleFb == [cpu |-> 0, q |-> 100, er |-> 100, locks |-> 50]
\* records outside the documented ranges
NegativeFb == [cpu |-> -100, q |-> -50, er |-> 0, locks |-> 0]
OverFb == [cpu |-> 500, q |-> 1000, er |-> 300, locks |-> 400]
\* records that score 0.25 and 0.55, the thresholds of adjustBatchSize, and
\* 0.27 and 0.60, just inside them
LowEdgeFb == [cpu |-> 0, q |-> 100, er |-> 0, locks |-> 50]
HighEdgeFb == [cpu |-> 50, q |-> 100, er |-> 0, locks |-> 50]
Cpu45Fb == [cpu |-> 45, q |-> 0, er |-> 0, locks |-> 0]
CpuFullFb == [cpu |-> 100, q |-> 0, er |-> 0, locks |-> 0]
ControllerFeedbacks ==
    {HighFb, CpuHighFb, IdleFb, CpuIdleFb, NegativeFb, OverFb,
     LowEdgeFb, HighEdgeFb, Cpu45Fb, CpuFullFb}

RawConfig(ini, lo, hi, f) ==
    [InitialBatchSize |-> ini, MinBatchSize |-> lo, MaxBatchSize |-> hi, Timeout |-> 0,
     HandlerFunc |-> TRUE, AdjustmentFactor |-> f]

\* the configuration of TestBatcher_AdaptiveSizing, and smaller ones with the
\* default factor and the default minimum
ControllerRawConfigs ==
    {RawConfig(20, 5, 50, 50), RawConfig(9, 5, 10, 20), RawConfig(3, 0, 10, 0),
     RawConfig(5, 0, 10, 20)}

ControllerInit ==
    /\ \E raw \in ControllerRawConfigs :
          /\ New(raw).err = "nil"
          /\ cfg = New(raw).cfg
    /\ batch = <<>>
    /\ timer = 0
    /\ closed = FALSE
    /\ currentBatchSize = cfg.InitialBatchSize
    /\ recentFeedback = <<>>
    /\ stopAdjust = FALSE
    /\ ctl = "run"
    /\ mu = {}
    /\ pc = [t \in Threads |-> IF t \in Clients THEN "idle" ELSE "unarmed"]
    /\ op = [t \in Threads |-> IF t \in Clients THEN NoOp ELSE TimerOp]
    /\ held = [t \in Threads |-> <<>>]
    /\ fbk = [t \in Threads |-> LowFb]
    /\ herr = [t \in Threads |-> NilErr]
    /\ handled = <<>>
    /\ hist = [c \in Clients |-> <<>>]
    /\ appended = <<>>
    /\ calls = 0
    /\ ticks = 0

\* a batch was flushed: the handler returned its record and processBatch
\* stored it in the ring
HandlerFeedback ==
    /\ mu = {}
    /\ \E f \in ControllerFeedbacks :
          /\ IF recentFeedback = <<>> THEN TRUE ELSE f = recentFeedback[1]
          /\ recentFeedback' = recordFeedback(recentFeedback, f)
    /\ UNCHANGED <<cfg, batch, timer, closed, currentBatchSize, stopAdjust, ctl, mu, pc,
                   op, held, fbk, herr, handled, hist, appended, calls, ticks>>

ControllerNext == CtlTick \/ HandlerFeedback

ControllerSpec == ControllerInit /\ [][ControllerNext]_vars

\* Construction: a caller hands any configuration to New. Before the call
\* there is no batcher (every field is zero, cfg holds the caller's Config)
\* and no controller goroutine (ctl = "none").
ErrInvalidConfig == [e |-> "ErrInvalidConfig", n |-> 0]

AnyRawConfigs ==
    [InitialBatchSize : {-1, 0, 1, 2, 1001}, MinBatchSize : {-1, 0, 1, 3},
     MaxBatchSize : {-1, 0, 2, 3}, Timeout : {0}, HandlerFunc : BOOLEAN,
     AdjustmentFactor : {0, 50}]

NewInit ==
    /\ cfg \in AnyRawConfigs
    /\ batch = <<>>
    /\ timer = 0
    /\ closed = FALSE
    /\ currentBatchSize = 0
    /\ recentFeedback = <<>>
    /\ stopAdjust = FALSE
    /\ ctl = "none"
    /\ mu = {}
    /\ pc = [t \in Threads |-> IF t \in Clients THEN "idle" ELSE "unarmed"]
    /\ op = [t \in Threads |-> IF t \in Clients THEN NoOp ELSE TimerOp]
    /\ held = [t \in Threads |-> <<>>]
    /\ fbk = [t \in Threads |-> LowFb]
    /\ herr = [t \in Threads |-> NilErr]
    /\ handled = <<>>
    /\ hist = [c \in Clients |-> <<>>]
    /\ appended = <<>>
    /\ calls = MaxOps
    /\ ticks = -1

\* client 1 calls New(cfg); on success the batcher and its controller exist
NewCall ==
    /\ ctl = "none"
    /\ hist[1] = <<>>
    /\ hist' = [hist EXCEPT ![1] = <<[kind |-> "New", item |-> <<0, 0>>,
                                      res |-> [e |-> New(cfg).err, n |-> 0]]>>]
    /\ IF New(cfg).err = "nil"
       THEN /\ cfg' = New(cfg).cfg
            /\ currentBatchSize' = New(cfg).cfg.InitialBatchSize
            /\ ctl' = "run"
       ELSE UNCHANGED <<cfg, currentBatchSize, ctl>>
    /\ UNCHANGED <<batch, timer, closed, recentFeedback, stopAdjust, mu, pc, op, held,
                   fbk, herr, handled, appended, calls, ticks>>

NewSpec == NewInit /\ [][NewCall]_vars

\* Shutdown runs: a batcher without a timeout whose clients make two calls
\* more than in Spec (an Add, two Close calls and a Flush fit).
ShutdownInit == Constructed /\ calls = MaxCalls + 1 /\ cfg.Timeout = 0

\* with Timeout = 0 no timer is ever created
ShutdownNext == ClientStep \/ FlushStep \/ CtlStep

ShutdownSpec == ShutdownInit /\ [][ShutdownNext]_vars

\* ------------------------------------------------ the read-only methods
\* The runs of StatsSpec add the two read-only methods to the Add and Flush
\* calls of an open batcher without timeout; a run makes one read, at any
\* point.
ReadsOf(c) ==
    Cardinality({i \in 1 .. Len(hist[c]) :
                    hist[c][i].kind \in {"GetStats", "GetCurrentBatchSize"}})

CanRead(c) ==
    /\ c \in Clients
    /\ pc[c] = "idle"
    /\ \A d \in Clients : ReadsOf(d) = 0

\* the value of the float64 sum / float64(n), kept as the pair (sum, n)
Quotient(sum, n) == [sum |-> sum, over |-> n]

\* return b.currentBatchSize, under the lock
GetCurrentBatchSize(c) ==
    /\ CanRead(c)
    /\ mu = {}
    /\ Return(c, [kind |-> "GetCurrentBatchSize", item |-> <<0, 0>>],
              [e |-> "int", n |-> 0, value |-> currentBatchSize], pc)
    /\ UNCHANGED <<cfg, batch, timer, closed, currentBatchSize, recentFeedback,
                   stopAdjust, ctl, mu, handled, appended, calls, ticks>>

\* mutant: the mean divides by the ring's capacity
GetStatsOverCapacity(c) ==
    /\ CanRead(c)
    /\ mu = {}
    /\ Return(c, [kind |-> "GetStats", item |-> <<0, 0>>],
              [e |-> "Stats", n |-> 0,
               CurrentBatchSize |-> currentBatchSize,
               PendingItems |-> Len(batch),
               AverageLoadScore |-> Quotient(SumScores(recentFeedback), maxFeedbackLen),
               RecentFeedbackSize |-> Len(recentFeedback)], pc)
    /\ UNCHANGED <<cfg, batch, timer, closed, currentBatchSize, recentFeedback,
                   stopAdjust, ctl, mu, handled, appended, calls, ticks>>

\* GetStats: the four values are read in one critical section
GetStats(c) ==
    /\ CanRead(c)
    /\ mu = {}
    /\ Return(c, [kind |-> "GetStats", item |-> <<0, 0>>],
              [e |-> "Stats", n |-> 0,
               CurrentBatchSize |-> currentBatchSize,
               PendingItems |-> Len(batch),
               AverageLoadScore |-> IF Len(recentFeedback) > 0
                                    THEN Quotient(SumScores(recentFeedback),
                                                  Len(recentFeedback))
                                    ELSE Quotient(0, 1),
               RecentFeedbackSize |-> Len(recentFeedback)], pc)
    /\ UNCHANGED <<cfg, batch, timer, closed, currentBatchSize, recentFeedback,
                   stopAdjust, ctl, mu, handled, appended, calls, ticks>>

ReadStep ==
    \E c \in Clients :
        \/ GetStats(c)
        \/ GetCurrentBatchSize(c)

StatsInit == DeepInit /\ cfg.Timeout = 0 /\ cfg.InitialBatchSize = 2

StatsNext ==
    \/ \E c \in Clients : Add(c) \/ Flush(c)
    \/ FlushStep
    \/ CtlTick
    \/ ReadStep

StatsSpec == StatsInit /\ [][StatsNext]_vars

\* ------------------------------------------------------ a filled ring
\* The runs of RingSpec start from a batcher whose handler has already
\* returned nine or ten records, an overloaded one first and idle ones since,
\* with nothing pending and no call in progress; the calls, timers and
\* handler invocations observed are those made from then on.
EarlierRecords(n) == [i \in 1 .. n |-> IF i = 1 THEN HighFb ELSE LowFb]

RingInit ==
    /\ \E raw \in RawConfigs :
          /\ New(raw).err = "nil"
          /\ cfg = New(raw).cfg
    /\ batch = <<>>
    /\ timer = 0
    /\ closed = FALSE
    /\ currentBatchSize = cfg.InitialBatchSize
    /\ recentFeedback \in {EarlierRecords(maxFeedbackLen - 1), EarlierRecords(maxFeedbackLen)}
    /\ stopAdjust = FALSE
    /\ ctl = "run"
    /\ mu = {}
    /\ pc = [t \in Threads |-> IF t \in Clients THEN "idle" ELSE "unarmed"]
    /\ op = [t \in Threads |-> IF t \in Clients THEN NoOp ELSE TimerOp]
    /\ held = [t \in Threads |-> <<>>]
    /\ fbk = [t \in Threads |-> LowFb]
    /\ herr = [t \in Threads |-> NilErr]
    /\ handled = <<>>
    /\ hist = [c \in Clients |-> <<>>]
    /\ appended = <<>>
    /\ calls = MaxOps
    /\ ticks = -1

RingSpec == RingInit /\ [][Next]_vars

\* ---------------------------------------------- resizing under load
\* The runs of ResizeSpec let the controller move currentBatchSize while
\* producers add: a batcher without timeout whose handler has returned one
\* record before (an idle or an overloaded one), with nothing pending and no
\* call in progress, and clients that only call Add, as many times as it
\* takes to overfill a batch of the smaller MaxBatchSize.
ResizeRawConfigs == {RawConfig(2, 0, 2, 50), RawConfig(2, 0, 3, 50)}

ResizeInit ==
    /\ \E raw \in ResizeRawConfigs :
          /\ New(raw).err = "nil"
          /\ cfg = New(raw).cfg
    /\ batch = <<>>
    /\ timer = 0
    /\ closed = FALSE
    /\ currentBatchSize = cfg.InitialBatchSize
    /\ recentFeedback \in {<<LowFb>>, <<HighFb>>}
    /\ stopAdjust = FALSE
    /\ ctl = "run"
    /\ mu = {}
    /\ pc = [t \in Threads |-> IF t \in Clients THEN "idle" ELSE "unarmed"]
    /\ op = [t \in Threads |-> IF t \in Clients THEN NoOp ELSE TimerOp]
    /\ held = [t \in Threads |-> <<>>]
    /\ fbk = [t \in Threads |-> LowFb]
    /\ herr = [t \in Threads |-> NilErr]
    /\ handled = <<>>
    /\ hist = [c \in Clients |-> <<>>]
    /\ appended = <<>>
    /\ calls = MaxCalls
    /\ ticks = -1

ResizeNext ==
    \/ \E c \in Clients : Add(c)
    \/ FlushStep
    \/ CtlTick

ResizeSpec == ResizeInit /\ [][ResizeNext]_vars

\* ------------------------------------------------------ LoadScore
\* A caller holds a feedback record with fields in their documented ranges
\* (CPULoad and ErrorRate between 0 and 1, in percent; QueueDepth and DBLocks
\* not negative) and calls its LoadScore method. No batcher is involved. The
\* record of the call keeps the receiver and the score returned.
ScoreInputs ==
    [cpu : {0, 10, 50, 90, 100}, q : {0, 5, 50, 100, 150}, er : {0, 5, 20, 100},
     locks : {0, 2, 20, 50, 60}]

ScoreInit ==
    /\ cfg \in {RawConfig(2, 0, 3, 50)}
    /\ batch = <<>>
    /\ timer = 0
    /\ closed = FALSE
    /\ currentBatchSize = 0
    /\ recentFeedback = <<>>
    /\ stopAdjust = FALSE
    /\ ctl = "none"
    /\ mu = {}
    /\ pc = [t \in Threads |-> IF t \in Clients THEN "idle" ELSE "unarmed"]
    /\ op = [t \in Threads |-> IF t \in Clients THEN NoOp ELSE TimerOp]
    /\ held = [t \in Threads |-> <<>>]
    /\ \E lf \in ScoreInputs : fbk = [t \in Threads |-> IF t = 1 THEN lf ELSE LowFb]
    /\ herr = [t \in Threads |-> NilErr]
    /\ handled = <<>>
    /\ hist = [c \in Clients |-> <<>>]
    /\ appended = <<>>
    /\ calls = 1
    /\ ticks = -1

\* score := lf.LoadScore()
LoadScoreCall ==
    /\ pc[1] = "idle"
    /\ calls > 0
    /\ calls' = calls - 1
    /\ Return(1, [kind |-> "LoadScore", item |-> fbk[1]],
              [e |-> "float64", n |-> 0, value |-> LoadScore(fbk[1])], pc)
    /\ UNCHANGED <<cfg, batch, timer, closed, currentBatchSize, recentFeedback,
                   stopAdjust, ctl, mu, handled, appended, ticks>>

ScoreSpec == ScoreInit /\ [][LoadScoreCall]_vars

\* ------------------------------------------------- observations used below
RECURSIVE Concat(_)
Concat(batches) ==
    IF batches = <<>> THEN <<>> ELSE Head(batches).batch \o Concat(Tail(batches))

\* the items passed to the handler so far, in invocation order
HandledItems == Concat(handled)

InHandled(x) == \E k \in 1 .. Len(HandledItems) : HandledItems[k] = x

Calls == {<<c, i>> \in Clients \X (1 .. MaxCalls) : i <= Len(hist[c])}
CallOf(ci) == hist[ci[1]][ci[2]]

ArmedTimers == {t \in TimerIds : pc[t] = "armed"}

\* no goroutine is inside a call and no timer can still run
Quiescent == \A t \in Threads : pc[t] \in {"idle", "unarmed", "stopped", "done"}

\* a Close call has returned
CloseReturned == \E ci \in Calls : CallOf(ci).kind = "Close"

\* the step in which client c's Add call takes the mutex
AddTakesLock(c) ==
    /\ pc[c] = "idle"
    /\ \/ op'[c].kind = "Add"
       \/ /\ Len(hist'[c]) = Len(hist[c]) + 1
          /\ hist'[c][Len(hist'[c])].kind = "Add"

\* the step in which goroutine t detaches the pending buffer
Detaches(t) == pc[t] # "call" /\ pc'[t] = "call"

\* no Add triggered a size flush
NoSizeFlush == \A n \in 1 .. Len(handled) : handled[n].kind # "Add"

\* ------------------------------------------------------------- claims

\* C1: once the Close call that closed the batcher has returned, with no
\* client inside a call and no Add call having returned an error, the handler
\* invocations made so far have received as many items as Add calls were made.
C1_Conservation ==
    ( /\ closed
      /\ \A c \in Clients : pc[c] = "idle"
      /\ \A ci \in Calls : CallOf(ci).kind = "Add" => CallOf(ci).res = NilErr )
    => Len(HandledItems) = Cardinality({ci \in Calls : CallOf(ci).kind = "Add"})

\* C2: every item passed to the handler comes from an Add call that did not
\* return ErrClosed, and no item is passed to the handler twice (in one batch
\* or in two).
C2_HandledOnceAdmitted ==
    LET admitted == {CallOf(ci).item : ci \in {x \in Calls : /\ CallOf(x).kind = "Add"
                                                             /\ CallOf(x).res # ErrClosed}}
                    \cup {op[c].item : c \in {d \in Clients : op[d].kind = "Add"}}
    IN  /\ \A k \in 1 .. Len(HandledItems) : HandledItems[k] \in admitted
        /\ \A k, l \in 1 .. Len(HandledItems) : HandledItems[k] = HandledItems[l] => k = l

\* the handler returned from two invocations, one of them made by Add
C2_Witness ==
    \E m, n \in 1 .. Len(handled) :
        /\ m # n
        /\ handled[m].err # Pending
        /\ handled[n].err # Pending
        /\ handled[m].kind = "Add"

\* C3: currentBatchSize always lies between MinBatchSize and MaxBatchSize.
C3_Bounds ==
    /\ cfg.MinBatchSize <= currentBatchSize
    /\ currentBatchSize <= cfg.MaxBatchSize

\* the controller has shrunk the size to the minimum after feedback arrived
C3_Witness ==
    /\ recentFeedback # <<>>
    /\ currentBatchSize = cfg.MinBatchSize
    /\ currentBatchSize < cfg.InitialBatchSize

\* C4: a detached batch is never longer than currentBatchSize is at the
\* moment of the detach.
C4_BatchWithinCurrentSize ==
    [][\A t \in Threads : Detaches(t) => Len(held'[t]) <= currentBatchSize]_vars

\* C5: an Add that takes the mutex after a Close call has returned returns
\* ErrClosed, appends nothing, arms no timer and does not go on to the handler.
C5_ClosedRejection ==
    [][\A c \in Clients :
          (CloseReturned /\ AddTakesLock(c)) =>
              /\ Len(hist'[c]) = Len(hist[c]) + 1
              /\ hist'[c][Len(hist'[c])].res = ErrClosed
              /\ pc'[c] = "idle"
              /\ batch' = batch
              /\ appended' = appended
              /\ timer' = timer
              /\ ArmedTimers' = ArmedTimers
              /\ held' = held
              /\ handled' = handled]_vars

\* a client's own Close returned and its next Add was rejected
C5_Witness ==
    \E c \in Clients : \E i, j \in 1 .. Len(hist[c]) :
        /\ i < j
        /\ hist[c][i].kind = "Close"
        /\ hist[c][j].kind = "Add"
        /\ hist[c][j].res = ErrClosed

\* C6: at most one timer is armed; a timer is armed only while none is, and
\* every detach leaves no timer armed.
C6_AtMostOneTimer ==
    [][/\ Cardinality(ArmedTimers') <= 1
       /\ \A t \in TimerIds : (pc[t] = "unarmed" /\ pc'[t] = "armed") => ArmedTimers = {}
       /\ \A t \in Threads : Detaches(t) => (ArmedTimers' = {} /\ timer' = 0)]_vars

\* one timer was stopped or has fired and a later Add armed the next
C6_Witness ==
    \E s, t \in TimerIds : pc[s] \notin {"unarmed", "armed"} /\ pc[t] = "armed"

\* C7: with Timeout > 0 every appended item (the k-th, for every k) is
\* eventually passed to the handler.
C7_EventuallyHandled ==
    \A k \in 1 .. MaxOps :
        (cfg.Timeout > 0 /\ Len(appended) >= k)
            ~> (Len(appended) >= k /\ InHandled(appended[k]))

\* a timer callback passed items to the handler
C7_Witness ==
    \E n \in 1 .. Len(handled) : handled[n].kind = "Timer" /\ handled[n].err # Pending

\* C8: an Add whose append brings the buffer to currentBatchSize or more
\* detaches the whole buffer with its item, leaves the buffer empty and no
\* timer set, and returns only after the handler ran on that batch, with the
\* error the handler returned.
C8_SizeTrigger ==
    [][\A c \in Clients :
          /\ (AddTakesLock(c) /\ ~closed /\ Len(batch) + 1 >= currentBatchSize) =>
                /\ pc'[c] = "call"
                /\ op'[c].kind = "Add"
                /\ held'[c] = Append(batch, op'[c].item)
                /\ batch' = <<>>
                /\ timer' = 0
                /\ ArmedTimers' = {}
                /\ hist'[c] = hist[c]
          /\ (op[c].kind = "Add" /\ pc'[c] = "idle") =>
                /\ Len(hist'[c]) = Len(hist[c]) + 1
                /\ hist'[c][Len(hist'[c])].item = op[c].item
                /\ \E n \in 1 .. Len(handled') :
                      /\ handled'[n].by = c
                      /\ handled'[n].batch = held[c]
                      /\ handled'[n].err # Pending
                      /\ handled'[n].err = hist'[c][Len(hist'[c])].res]_vars

\* an Add flushed a batch of two and returned the handler's error
C8_Witness ==
    \E ci \in Calls : \E n \in 1 .. Len(handled) :
        /\ CallOf(ci).kind = "Add"
        /\ CallOf(ci).res = HandlerErr(n)
        /\ handled[n].kind = "Add"
        /\ handled[n].by = ci[1]
        /\ Len(handled[n].batch) >= 2

\* the calls made so far are Adds that returned nil without a size flush
OnlyQuietAdds ==
    /\ NoSizeFlush
    /\ \A ci \in Calls : CallOf(ci).kind = "Add" /\ CallOf(ci).res = NilErr

\* C9: with Timeout > 0, when only Adds were called, none reached the size
\* trigger and nothing is running any more, the handler has been invoked; and if
\* the flush that took the first item added came after the last Add, the
\* handler was invoked exactly once, by the timer, with exactly the items
\* added, in the order they were appended.
C9_TimeoutFlush ==
    (cfg.Timeout > 0 /\ Quiescent /\ OnlyQuietAdds /\ appended # <<>>)
    => /\ handled # <<>>
       /\ \A n \in 1 .. Len(handled) :
             ( /\ handled[n].batch # <<>>
               /\ handled[n].batch[1] = appended[1]
               /\ handled[n].batch[Len(handled[n].batch)] = appended[Len(appended)] )
             => /\ Len(handled) = 1
                /\ handled[n].batch = appended
                /\ handled[n].kind = "Timer"

C9_Witness ==
    /\ cfg.Timeout > 0 /\ Quiescent /\ OnlyQuietAdds
    /\ Len(appended) >= 2
    /\ Len(handled) = 1
    /\ handled[1].batch = appended

\* the calls made so far are Adds that returned nil without a size flush,
\* and one Close, which has returned
QuietAddsThenClose ==
    /\ NoSizeFlush
    /\ \A ci \in Calls :
          \/ CallOf(ci).kind = "Add" /\ CallOf(ci).res = NilErr
          \/ CallOf(ci).kind = "Close"
    /\ Cardinality({ci \in Calls : CallOf(ci).kind = "Close"}) = 1

\* C10: with no timeout, after Adds below the size trigger, Close invokes the
\* handler exactly once, with exactly the items added, and returns the error
\* of that invocation.
C10_CloseFlushes ==
    (cfg.Timeout = 0 /\ Quiescent /\ QuietAddsThenClose /\ appended # <<>>)
    => /\ Len(handled) = 1
       /\ handled[1].batch = appended
       /\ handled[1].kind = "Close"
       /\ \E ci \in Calls : CallOf(ci).kind = "Close" /\ CallOf(ci).res = handled[1].err

C10_Witness ==
    /\ cfg.Timeout = 0 /\ Quiescent /\ QuietAddsThenClose
    /\ Len(appended) >= 1
    /\ \E ci \in Calls : CallOf(ci).kind = "Close" /\ CallOf(ci).res = HandlerErr(1)

\* a Flush call has returned
FlushReturned == \E ci \in Calls : CallOf(ci).kind = "Flush"

\* C11: with no timeout, once every Add call of the concurrent producers has
\* returned and a Flush called after that has returned, the handler has been
\* passed as many items as Add calls were made and the pending buffer is empty.
C11_FlushConservation ==
    (cfg.Timeout = 0 /\ FlushReturned /\ \A c \in Clients : pc[c] = "idle")
    => /\ Len(HandledItems) = Cardinality({ci \in Calls : CallOf(ci).kind = "Add"})
       /\ batch = <<>>

\* two producers added, and the Flush handed the items of both to the handler
C11_Witness ==
    /\ cfg.Timeout = 0 /\ FlushReturned
    /\ \A c \in Clients : pc[c] = "idle"
    /\ \E n \in 1 .. Len(handled) :
          /\ handled[n].kind = "Flush"
          /\ \E i, j \in 1 .. Len(handled[n].batch) :
                handled[n].batch[i][1] # handled[n].batch[j][1]

\* client 1 alone has made calls: Adds one after another and then a Flush,
\* which has returned
SingleProducerThenFlush ==
    /\ \A d \in Clients \ {1} : hist[d] = <<>> /\ pc[d] = "idle"
    /\ pc[1] = "idle"
    /\ Len(hist[1]) >= 2
    /\ hist[1][Len(hist[1])].kind = "Flush"
    /\ \A i \in 1 .. (Len(hist[1]) - 1) : hist[1][i].kind = "Add"

\* C12: with Timeout > 0, when a single producer has added items one after
\* another and its following Flush has returned, every item added has been
\* passed to the handler.
C12_FlushDeliversAll ==
    (cfg.Timeout > 0 /\ SingleProducerThenFlush)
    => \A k \in 1 .. Len(appended) : InHandled(appended[k])

\* the step in which client c's Close call takes the mutex
CloseTakesLock(c) ==
    /\ pc[c] = "idle"
    /\ \/ op'[c].kind = "Close"
       \/ /\ Len(hist'[c]) = Len(hist[c]) + 1
          /\ hist'[c][Len(hist'[c])].kind = "Close"

\* the clients that are performing the shutdown
ShuttingDown == {c \in Clients : op[c].kind = "Close"}

\* C13: a Close call that finds the batcher open sets closed, closes the stop
\* channel (not closed before), and goes on to wait for the controller and to
\* the final flush; a Close call that finds it closed returns nil at once and
\* changes nothing. closed is never reset, so one Close call at most performs
\* the shutdown and invokes the handler.
C13_CloseOnce ==
    [][/\ \A c \in Clients :
             CloseTakesLock(c) =>
                 IF closed
                 THEN /\ Len(hist'[c]) = Len(hist[c]) + 1
                      /\ hist'[c][Len(hist'[c])].res = NilErr
                      /\ pc'[c] = "idle"
                      /\ UNCHANGED <<batch, timer, closed, stopAdjust, ctl, held, handled,
                                     currentBatchSize, recentFeedback>>
                 ELSE /\ closed'
                      /\ ~stopAdjust /\ stopAdjust'
                      /\ pc'[c] = "cwait"
                      /\ hist'[c] = hist[c]
       /\ closed => closed'
       /\ \A c \in Clients : (pc[c] = "cwait" /\ pc'[c] # "cwait") =>
             (ctl = "exited" /\ pc'[c] = "cflush")
       /\ Cardinality(ShuttingDown') <= 1
       /\ Cardinality({n \in 1 .. Len(handled') : handled'[n].kind = "Close"}) <= 1]_vars

\* a second Close call returned while the first was still shutting down
C13_Witness ==
    \E c, d \in Clients :
        /\ c # d
        /\ pc[c] \in {"cwait", "cflush", "call", "run", "rec"}
        /\ op[c].kind = "Close"
        /\ \E i \in 1 .. Len(hist[d]) : hist[d][i].kind = "Close" /\ hist[d][i].res = NilErr

\* the step in which goroutine t runs the critical section of b.Flush: as a
\* client's Flush call, as the final flush of Close or as a timer callback
FlushTakesLock(t) ==
    \/ /\ t \in Clients
       /\ pc[t] = "idle"
       /\ \/ op'[t].kind = "Flush"
          \/ /\ Len(hist'[t]) = Len(hist[t]) + 1
             /\ hist'[t][Len(hist'[t])].kind = "Flush"
    \/ pc[t] = "cflush" /\ pc'[t] # "cflush"
    \/ pc[t] = "fired" /\ pc'[t] # "fired"

\* C14: a Flush that finds the pending buffer empty returns nil in its
\* critical section, does not go on to the handler, and leaves the buffer, the
\* timer, currentBatchSize, closed and the feedback ring as they were.
C14_FlushEmptyNoOp ==
    [][\A t \in Threads :
          (FlushTakesLock(t) /\ batch = <<>>) =>
              /\ pc'[t] = IF t \in Clients THEN "idle" ELSE "done"
              /\ t \in Clients =>
                    /\ Len(hist'[t]) = Len(hist[t]) + 1
                    /\ hist'[t][Len(hist'[t])].res = NilErr
              /\ handled' = handled
              /\ held'[t] = <<>>
              /\ ArmedTimers' = ArmedTimers
              /\ UNCHANGED <<batch, timer, currentBatchSize, closed, recentFeedback>>]_vars

\* the callback of a timer that had fired ran its Flush after an Add had
\* taken the buffer: it found the buffer empty and made no handler invocation
C14_Witness ==
    /\ \E t \in TimerIds : pc[t] = "done"
    /\ \A n \in 1 .. Len(handled) : handled[n].kind # "Timer"
    /\ appended # <<>>

\* C15: a Flush call that takes the mutex after a Close call has returned
\* returns nil in its critical section and does not go on to the handler.
C15_FlushAfterClose ==
    [][\A c \in Clients :
          (CloseReturned /\ pc[c] = "idle" /\ FlushTakesLock(c)) =>
              /\ pc'[c] = "idle"
              /\ Len(hist'[c]) = Len(hist[c]) + 1
              /\ hist'[c][Len(hist'[c])].res = NilErr
              /\ handled' = handled
              /\ held'[c] = <<>>]_vars

\* C16: New fails with ErrInvalidConfig, leaving no batcher and no controller,
\* exactly when InitialBatchSize <= 0, or HandlerFunc is nil, or MinBatchSize
\* exceeds MaxBatchSize once the defaults (1 and 1000) are applied; otherwise
\* it succeeds, the controller runs, and currentBatchSize is InitialBatchSize
\* clamped into [MinBatchSize, MaxBatchSize].
C16_NewValidation ==
    [][(hist[1] = <<>> /\ hist'[1] # <<>>) =>
          LET lo == IF cfg.MinBatchSize <= 0 THEN 1 ELSE cfg.MinBatchSize
              hi == IF cfg.MaxBatchSize <= 0 THEN 1000 ELSE cfg.MaxBatchSize
              invalid == \/ cfg.InitialBatchSize <= 0
                         \/ ~cfg.HandlerFunc
                         \/ lo > hi
              clamped == IF cfg.InitialBatchSize < lo THEN lo
                         ELSE IF cfg.InitialBatchSize > hi THEN hi
                         ELSE cfg.InitialBatchSize
          IN  IF invalid
              THEN /\ hist'[1][1].res = ErrInvalidConfig
                   /\ ctl' = "none"
                   /\ currentBatchSize' = 0
                   /\ cfg' = cfg
              ELSE /\ hist'[1][1].res = NilErr
                   /\ ctl' = "run"
                   /\ currentBatchSize' = clamped
                   /\ cfg'.MinBatchSize = lo
                   /\ cfg'.MaxBatchSize = hi
                   /\ cfg'.InitialBatchSize = clamped]_vars

\* New rejected a configuration with a positive InitialBatchSize and a handler
\* whose MinBatchSize exceeds the default-filled MaxBatchSize
C16_Witness ==
    /\ hist[1] # <<>>
    /\ hist[1][1].res = ErrInvalidConfig
    /\ ctl = "none"
    /\ cfg.InitialBatchSize > 0
    /\ cfg.HandlerFunc
    /\ cfg.MinBatchSize > 2

\* the handler's record: in the controller runs every record of the ring is
\* the first one
HandlerRecord == recentFeedback[1]

\* ceil(log base 1/(1-f) of (initial/min)): the least k with
\* initial * (1-f)^k <= min, f in tenths; MaxTicks + 1 if there is none up
\* to MaxTicks
DownBound ==
    LET f10 == cfg.AdjustmentFactor \div 10
        Reached(k) == cfg.InitialBatchSize * (10 - f10) ^ k <= cfg.MinBatchSize * 10 ^ k
    IN  IF \E k \in 0 .. MaxTicks : Reached(k)
        THEN CHOOSE k \in 0 .. MaxTicks : Reached(k) /\ \A j \in 0 .. (k - 1) : ~Reached(j)
        ELSE MaxTicks + 1

\* C17 as stated: with a handler that always returns the same record with
\* cpu_load = 0.9, no tick raises currentBatchSize, and after DownBound
\* ticks taken with a non-empty ring currentBatchSize is MinBatchSize.
C17_CpuHighConverges ==
    [][(recentFeedback # <<>> /\ HandlerRecord.cpu = 90) =>
          /\ currentBatchSize' <= currentBatchSize
          /\ ticks' >= DownBound => currentBatchSize' = cfg.MinBatchSize]_vars

\* C17, amended: with a handler that always returns the same record whose
\* load score is above 0.55, no tick raises currentBatchSize, and after
\* initial - min ticks taken with a non-empty ring currentBatchSize is
\* MinBatchSize.
C17_HighScoreConverges ==
    [][(recentFeedback # <<>> /\ LoadScore(HandlerRecord) > 5500) =>
          /\ currentBatchSize' <= currentBatchSize
          /\ ticks' >= cfg.InitialBatchSize - cfg.MinBatchSize =>
                currentBatchSize' = cfg.MinBatchSize]_vars

\* under constant high load the size came down to the minimum in exactly
\* initial - min ticks
C17_Witness ==
    /\ recentFeedback # <<>>
    /\ LoadScore(HandlerRecord) > 5500
    /\ ticks > 0
    /\ ticks = cfg.InitialBatchSize - cfg.MinBatchSize
    /\ currentBatchSize = cfg.MinBatchSize

\* ceil(log base (1+f) of (max/initial)): the least k with
\* initial * (1+f)^k >= max, f in tenths; MaxTicks + 1 if there is none up
\* to MaxTicks
UpBound ==
    LET f10 == cfg.AdjustmentFactor \div 10
        Reached(k) == cfg.InitialBatchSize * (10 + f10) ^ k >= cfg.MaxBatchSize * 10 ^ k
    IN  IF \E k \in 0 .. MaxTicks : Reached(k)
        THEN CHOOSE k \in 0 .. MaxTicks : Reached(k) /\ \A j \in 0 .. (k - 1) : ~Reached(j)
        ELSE MaxTicks + 1

\* C18 as stated: with a handler that always returns the same record with
\* cpu_load = 0.0, no tick lowers currentBatchSize, and after UpBound ticks
\* taken with a non-empty ring currentBatchSize is MaxBatchSize.
C18_CpuIdleConverges ==
    [][(recentFeedback # <<>> /\ HandlerRecord.cpu = 0) =>
          /\ currentBatchSize' >= currentBatchSize
          /\ ticks' >= UpBound => currentBatchSize' = cfg.MaxBatchSize]_vars

\* C18, amended: with a handler that always returns the same record whose
\* load score is below 0.25, no tick lowers currentBatchSize, and after
\* max - initial ticks taken with a non-empty ring currentBatchSize is
\* MaxBatchSize.
C18_LowScoreConverges ==
    [][(recentFeedback # <<>> /\ LoadScore(HandlerRecord) < 2500) =>
          /\ currentBatchSize' >= currentBatchSize
          /\ ticks' >= cfg.MaxBatchSize - cfg.InitialBatchSize =>
                currentBatchSize' = cfg.MaxBatchSize]_vars

\* under constant idle feedback the size went up to the maximum in exactly
\* max - initial ticks
C18_Witness ==
    /\ recentFeedback # <<>>
    /\ HandlerRecord = IdleFb
    /\ ticks > 1
    /\ ticks = cfg.MaxBatchSize - cfg.InitialBatchSize
    /\ currentBatchSize = cfg.MaxBatchSize

\* the configuration of TestBatcher_AdaptiveSizing: 20, min 5, max 50, factor 0.5
AdaptiveSizingCfg ==
    /\ cfg.InitialBatchSize = 20
    /\ cfg.MinBatchSize = 5
    /\ cfg.MaxBatchSize = 50
    /\ cfg.AdjustmentFactor = 50

\* C19: when every record the handler returns is {cpu 0.9, queue 100, error
\* rate 0.5} and the ring is not empty, every controller tick makes
\* currentBatchSize strictly smaller, or leaves it at MinBatchSize; starting
\* from 20 with min 5, max 50 and factor 0.5 the size is below 20 after the
\* first such tick and is 5 from the second one on.
C19_AdaptationDown ==
    [][(recentFeedback # <<>> /\ HandlerRecord = HighFb /\ recentFeedback' = recentFeedback) =>
          /\ currentBatchSize > cfg.MinBatchSize => currentBatchSize' < currentBatchSize
          /\ currentBatchSize = cfg.MinBatchSize => currentBatchSize' = cfg.MinBatchSize
          /\ AdaptiveSizingCfg =>
                /\ ticks' >= 1 => currentBatchSize' < 20
                /\ ticks' >= 2 => currentBatchSize' = 5]_vars

\* from 20 the size reached 5 and further ticks left it there
C19_Witness ==
    /\ AdaptiveSizingCfg
    /\ recentFeedback # <<>>
    /\ HandlerRecord = HighFb
    /\ ticks >= 4
    /\ currentBatchSize = 5

\* C20: the load score of every record the handler has returned lies
\* between 0 and 1 (10000 in the score's units), whatever the record's fields.
C20_ScoreBounds ==
    \A i \in 1 .. Len(recentFeedback) :
        /\ 0 <= LoadScore(recentFeedback[i])
        /\ LoadScore(recentFeedback[i]) <= 10000


\* the step in which goroutine t comes back from processBatch
LeavesProcessBatch(t) == pc[t] \in {"run", "rec"} /\ pc'[t] \notin {"run", "rec"}

\* every handler error a call has returned is the error of an invocation
\* that this very call made, and no other call has returned it
ErrorsRouted ==
    \A ci \in Calls :
        CallOf(ci).res.e = "handler" =>
            LET n == CallOf(ci).res.n
            IN  /\ n \in 1 .. Len(handled)
                /\ handled[n].err = CallOf(ci).res
                /\ handled[n].by = ci[1]
                /\ handled[n].kind = CallOf(ci).kind
                /\ \A cj \in Calls : CallOf(cj).res = CallOf(ci).res => cj = ci

\* C21: the call whose flush invoked the handler returns exactly what that
\* invocation returned, a handler error a call has returned comes from an
\* invocation of that call and of no other, and what the handler returns to a
\* timer callback appears in no call's result.
C21_ErrorRouting ==
    [][/\ \A c \in Clients :
             LeavesProcessBatch(c) =>
                 /\ Len(hist'[c]) = Len(hist[c]) + 1
                 /\ hist'[c][Len(hist'[c])].kind = handled'[Invocation(c)].kind
                 /\ hist'[c][Len(hist'[c])].res = handled'[Invocation(c)].err
       /\ \A t \in TimerIds : LeavesProcessBatch(t) => hist' = hist
       /\ ErrorsRouted']_vars

\* the handler returned an error to a timer callback, which has ended, and
\* every call made so far has returned nil
C21_Witness ==
    /\ \E n \in 1 .. Len(handled) :
          handled[n].kind = "Timer" /\ handled[n].err = HandlerErr(n)
                                    /\ pc[handled[n].by] = "done"
    /\ \E ci \in Calls : CallOf(ci).kind = "Add"
    /\ \A ci \in Calls : CallOf(ci).res = NilErr


\* the ring after one more record, written out from the ring's capacity
RingAfter(ring, f) ==
    IF Len(ring) < maxFeedbackLen THEN Append(ring, f) ELSE Append(Tail(ring), f)

\* C22: a goroutine that got a non-nil feedback from the handler appends it
\* to the ring before it comes back from processBatch, with or without a
\* handler error, whoever triggered the flush and whether or not the batcher is
\* closed; one that got nil feedback leaves the ring as it was, and nothing
\* else changes the ring.
C22_FeedbackRecorded ==
    [][/\ \A t \in Threads :
             /\ (pc[t] = "rec" /\ pc'[t] # "rec") =>
                    recentFeedback' = RingAfter(recentFeedback, fbk[t])
             /\ (pc[t] = "run" /\ pc'[t] \notin {"run", "rec"}) =>
                    recentFeedback' = recentFeedback
       /\ recentFeedback' # recentFeedback =>
             \E t \in Threads : pc[t] = "rec" /\ pc'[t] # "rec"]_vars

\* the final flush of Close, made with the closed flag set, got a feedback
\* record together with an error: the record is in the ring and Close
\* returned the error
C22_Witness ==
    /\ closed
    /\ cfg.Timeout = 0
    /\ Len(handled) = 1
    /\ handled[1].kind = "Close"
    /\ handled[1].err = HandlerErr(1)
    /\ pc[handled[1].by] = "idle"
    /\ Len(recentFeedback) = 1


\* the Close call that set the closed flag has returned
ShutdownReturned == closed /\ ShuttingDown = {}

\* C23: from the state in which Close has set closed on, no step admits an
\* item, arms a timer or stores a timer handle; once the Close call that set
\* the flag has returned, no timer is armed and no timer handle is set.
C23_ClosedNoAdmitNoTimer ==
    [][/\ closed =>
             /\ appended' = appended
             /\ Len(batch') <= Len(batch)
             /\ ArmedTimers' \subseteq ArmedTimers
             /\ timer' \in {timer, 0}
       /\ ShutdownReturned' => ArmedTimers' = {} /\ timer' = 0]_vars

\* an Add armed a timer, the final flush of Close took the buffer and
\* stopped the timer, and Close has returned
C23_Witness ==
    /\ ShutdownReturned
    /\ \E t \in TimerIds : pc[t] = "stopped"
    /\ \E n \in 1 .. Len(handled) : handled[n].kind = "Close"
    /\ \A t \in Threads : pc[t] \notin {"call", "run", "rec"}


\* the step in which client c makes the read-only call of the given kind
Reads(c, kind) ==
    /\ pc[c] = "idle"
    /\ Len(hist'[c]) = Len(hist[c]) + 1
    /\ hist'[c][Len(hist'[c])].kind = kind

\* the state of the batcher, without the record of the calls made
BatcherState ==
    <<cfg, batch, timer, closed, currentBatchSize, recentFeedback, stopAdjust, ctl, mu,
      ArmedTimers, held, handled>>

\* C24: the four values a GetStats call returns are those of the state it
\* is called in: currentBatchSize, the number of pending items, the mean of
\* the load scores of the ring's records (0 for an empty ring) and the number
\* of records in the ring; GetStats and GetCurrentBatchSize, which returns
\* currentBatchSize, leave the batcher's state as it was.
C24_StatsSnapshot ==
    [][\A c \in Clients :
          /\ Reads(c, "GetStats") =>
                LET s == hist'[c][Len(hist'[c])].res
                IN  /\ s.CurrentBatchSize = currentBatchSize
                    /\ s.PendingItems = Len(batch)
                    /\ s.RecentFeedbackSize = Len(recentFeedback)
                    /\ s.AverageLoadScore.over > 0
                    /\ s.AverageLoadScore.sum * Max2(Len(recentFeedback), 1)
                          = SumScores(recentFeedback) * s.AverageLoadScore.over
                    /\ BatcherState' = BatcherState
          /\ Reads(c, "GetCurrentBatchSize") =>
                /\ hist'[c][Len(hist'[c])].res.value = currentBatchSize
                /\ BatcherState' = BatcherState]_vars

\* GetStats was called with one item pending and one record in the ring,
\* after the controller had changed the batch size
C24_Witness ==
    \E c \in Clients : \E i \in 1 .. Len(hist[c]) :
        /\ hist[c][i].kind = "GetStats"
        /\ hist[c][i].res.PendingItems = 1
        /\ hist[c][i].res.RecentFeedbackSize = 1
        /\ hist[c][i].res.AverageLoadScore.sum > 0
        /\ hist[c][i].res.CurrentBatchSize # cfg.InitialBatchSize


\* the step is a controller tick taken with a non-empty ring
CountedTick == ticks' = ticks + 1

\* C25: a controller tick increases the batch size (unless it is at the
\* maximum) when the average load score is between 0.0 and 0.3, keeps it
\* when the score is between 0.3 and 0.7, and decreases it (unless it is at
\* the minimum) when the score is between 0.7 and 1.0.
C25_DocumentedBands ==
    [][CountedTick =>
          LET sum == SumScores(recentFeedback)
              n == Len(recentFeedback)
          IN  /\ (0 <= sum /\ sum < 3000 * n) =>
                    \/ currentBatchSize' > currentBatchSize
                    \/ currentBatchSize = cfg.MaxBatchSize
              /\ (3000 * n < sum /\ sum < 7000 * n) =>
                    currentBatchSize' = currentBatchSize
              /\ (7000 * n < sum /\ sum <= 10000 * n) =>
                    \/ currentBatchSize' < currentBatchSize
                    \/ currentBatchSize = cfg.MinBatchSize]_vars


\* the step is a controller tick: in the controller runs every other step
\* stores a record in the ring
CtlTicks == recentFeedback' = recentFeedback

\* clamp into [MinBatchSize, MaxBatchSize]
Clamp(n) == Min2(Max2(n, cfg.MinBatchSize), cfg.MaxBatchSize)

\* max(1, floor(current * AdjustmentFactor)), the factor being in percent
Step == Max2(1, (currentBatchSize * cfg.AdjustmentFactor) \div 100)

DetachRank(b) == CHOOSE k \in 1 .. Len(appended) : appended[k] = b[1]

\* C27: the ring never holds more than maxFeedbackLen (10) records; the step
\* in which a goroutine comes back from a handler call that gave a feedback
\* puts that feedback at the end of the ring, behind the records that were
\* there, in their order; and only when the ring was full the oldest record
\* leaves it; no other step changes the ring. The order of the ring is thus
\* the order in which the handler calls completed.
C27_RingWindow ==
    /\ Len(recentFeedback) <= maxFeedbackLen
    /\ [][/\ Len(recentFeedback') <= maxFeedbackLen
          /\ \A t \in Threads :
                (pc[t] = "rec" /\ pc'[t] # "rec") =>
                    LET n == Len(recentFeedback)
                        m == Len(recentFeedback')
                    IN  /\ m = Min2(n + 1, maxFeedbackLen)
                        /\ recentFeedback'[m] = fbk[t]
                        /\ \A i \in 1 .. (m - 1) :
                              recentFeedback'[i] = recentFeedback[i + (n + 1 - m)]
          /\ recentFeedback' # recentFeedback =>
                \E t \in Threads : pc[t] = "rec" /\ pc'[t] # "rec"]_vars

\* the ring was full; the handler call on a batch detached later completed
\* first and its record evicted the oldest one, while the goroutine that
\* detached the earlier batch has not come back from the handler
C27_Witness ==
    /\ Len(recentFeedback) = maxFeedbackLen
    /\ recentFeedback[1] # HighFb
    /\ \E s \in Threads : \E n \in 1 .. Len(handled) :
          /\ pc[s] \in {"call", "run"}
          /\ handled[n].by # s
          /\ handled[n].err # Pending
          /\ pc[handled[n].by] \in {"idle", "done"}
          /\ DetachRank(held[s]) < DetachRank(handled[n].batch)


\* the step arms a timer
Arms == \E t \in TimerIds : pc[t] # "armed" /\ pc'[t] = "armed"

\* C28: with Timeout > 0, an Add to the open batcher arms a timer exactly
\* when the buffer was empty before the append, the append does not reach
\* currentBatchSize and no timer is armed; an Add to a non-empty buffer arms
\* no timer and, unless it flushes, leaves the armed timer and the timer
\* handle as they are; every Add that finds the buffer empty and does not
\* flush, the first Add after a flush included, arms a timer and stores its
\* handle.
C28_TimerArming ==
    [][\A c \in Clients :
          (AddTakesLock(c) /\ ~closed /\ cfg.Timeout > 0) =>
              LET sizeFlush == Len(batch) + 1 >= currentBatchSize
              IN  /\ Arms <=> (batch = <<>> /\ ~sizeFlush /\ ArmedTimers = {})
                  /\ batch # <<>> =>
                        /\ ~Arms
                        /\ ~sizeFlush => (ArmedTimers' = ArmedTimers /\ timer' = timer)
                  /\ (batch = <<>> /\ ~sizeFlush) =>
                        /\ Arms
                        /\ timer' \in ArmedTimers'
                        /\ timer' \notin ArmedTimers
                        /\ pc[timer'] = "unarmed"]_vars

\* a timer callback has flushed a batch and the next Add, the first one
\* into the emptied buffer, has armed a new timer
C28_Witness ==
    /\ \E n \in 1 .. Len(handled) : handled[n].kind = "Timer"
    /\ Len(batch) = 1
    /\ timer \in ArmedTimers
    /\ \A c \in Clients : pc[c] = "idle"


\* C29: in every state in which the mutex is free, with Timeout > 0 the
\* timer handle is set exactly when the pending buffer is not empty, and with
\* Timeout <= 0 it is never set.
C29_TimerIffPending ==
    mu = {} =>
        /\ cfg.Timeout > 0 => (timer # 0 <=> batch # <<>>)
        /\ cfg.Timeout <= 0 => timer = 0

\* items are pending and the handle is that of a timer that has fired and
\* whose callback has not run yet, after an earlier batch was flushed
C29_Witness ==
    /\ cfg.Timeout > 0
    /\ batch # <<>>
    /\ timer \in TimerIds
    /\ pc[timer] = "fired"
    /\ handled # <<>>


\* timer t has fired and a detach has since called Stop on it and cleared
\* the handle; its callback has not run yet
Disarmed(t) == pc[t] = "fired" /\ timer # t

\* C30: the callback of a timer that was disarmed after it had fired does
\* nothing: it ends without detaching the pending buffer, stopping the timer
\* armed since, or going on to the handler.
C30_StaleCallbackNoOp ==
    [][\A t \in TimerIds :
          (Disarmed(t) /\ pc'[t] # "fired") =>
              /\ pc'[t] = "done"
              /\ held'[t] = <<>>
              /\ ArmedTimers' = ArmedTimers
              /\ UNCHANGED <<batch, timer, handled>>]_vars


\* b is a run of consecutive appends, in append order
ContiguousInAppended(b) ==
    \E r \in 1 .. Len(appended) :
        /\ r + Len(b) - 1 <= Len(appended)
        /\ b = SubSeq(appended, r, r + Len(b) - 1)

\* the goroutines that hold a detached batch not yet handed to the handler
Holding == {t \in Threads : pc[t] = "call"}

\* the detached batches that contain item x: those handed to the handler
\* and those still on their way to it
HoldersOf(x) ==
    Cardinality({n \in 1 .. Len(handled) :
                    \E k \in 1 .. Len(handled[n].batch) : handled[n].batch[k] = x})
    + Cardinality({t \in Holding : \E k \in 1 .. Len(held[t]) : held[t][k] = x})

\* the detached batches and the pending buffer are consecutive runs of the
\* appends that cover every append once, the pending buffer being the last
Tiling ==
    /\ \A n \in 1 .. Len(handled) : ContiguousInAppended(handled[n].batch)
    /\ \A t \in Holding : ContiguousInAppended(held[t])
    /\ batch = SubSeq(appended, Len(appended) - Len(batch) + 1, Len(appended))
    /\ \A k \in 1 .. Len(appended) :
          HoldersOf(appended[k]) = IF k > Len(appended) - Len(batch) THEN 0 ELSE 1

\* C31: every detach takes the whole pending buffer and leaves it empty;
\* every detached batch is a run of consecutive appends in append order, and
\* the detached batches, put in detach order, followed by the pending buffer,
\* are the sequence of all appends.
C31_DetachSnapshots ==
    [][/\ \A t \in Threads :
             Detaches(t) =>
                 /\ batch' = <<>>
                 /\ held'[t] # <<>>
                 /\ held'[t] = SubSeq(appended', Len(appended') - Len(held'[t]) + 1,
                                      Len(appended'))
                 /\ Len(held'[t]) = Len(batch) + (Len(appended') - Len(appended))
       /\ Tiling']_vars

\* two batches were detached and the handler received the later one first
C31_Witness ==
    \E t \in Holding :
        /\ Len(handled) = 1
        /\ DetachRank(held[t]) < DetachRank(handled[1].batch)


\* item x is at position i of the batch of handler invocation n
At(n, i, x) == i \in 1 .. Len(handled[n].batch) /\ handled[n].batch[i] = x

\* C32: for two items of one producer, the first added before the second:
\* when the handler invocation that receives the second has started, the
\* first is in the same batch at an earlier position, or in the batch of an
\* invocation that started earlier.
C32_ProducerOrder ==
    \A n \in 1 .. Len(handled) : \A k \in 1 .. Len(handled[n].batch) :
        \A j \in 1 .. Len(appended) :
            LET y == handled[n].batch[k]
                x == appended[j]
            IN  (x[1] = y[1] /\ x[2] < y[2]) =>
                    \/ \E i \in 1 .. (k - 1) : At(n, i, x)
                    \/ \E m \in 1 .. (n - 1) : \E i \in 1 .. Len(handled[m].batch) :
                          At(m, i, x)


\* the goroutines inside a handler invocation
InHandler == {t \in Threads : pc[t] = "run"}

\* C33: while a handler invocation is in progress the mutex is free: a
\* client that is about to call Add can take it, and if its append does not
\* reach currentBatchSize the Add returns in that critical section; a
\* goroutine that has detached a batch can enter the handler, so that two
\* invocations are in progress at once.
C33_HandlerOutsideLock ==
    InHandler # {} =>
        /\ mu = {}
        /\ \A c \in Clients :
              CanStart(c) =>
                  /\ ENABLED Add(c)
                  /\ Len(batch) + 1 < currentBatchSize =>
                        ENABLED (Add(c) /\ pc'[c] = "idle")
        /\ \A s \in Threads : pc[s] = "call" => ENABLED HandlerCall(s)

\* two handler invocations are in progress, on batches detached by the
\* callbacks of two timers, and every Add that filled them has returned
C33_Witness ==
    /\ \E s, t \in InHandler : s # t
    /\ \A c \in Clients : pc[c] = "idle"
    /\ Len(appended) = 2


\* the batches handed to the handler so far, in invocation order
HandledBatches == [n \in 1 .. Len(handled) |-> handled[n].batch]

\* no item of a batch the handler failed on is pending, on its way to the
\* handler, or in the batch of another invocation
FailedNotRequeued ==
    \A n \in 1 .. Len(handled) :
        handled[n].err.e = "handler" =>
            \A k \in 1 .. Len(handled[n].batch) :
                LET x == handled[n].batch[k]
                IN  /\ \A i \in 1 .. Len(batch) : batch[i] # x
                    /\ HoldersOf(x) = 1

\* C34: the step in which the handler returns an error, and the steps in
\* which its goroutine records the feedback and returns, put nothing into
\* the pending buffer and start no handler invocation; afterwards no item of
\* the failed batch is pending or is handed to the handler again.
C34_NoRetry ==
    [][/\ \A t \in Threads :
             (pc[t] \in {"run", "rec"} /\ pc'[t] # pc[t]) =>
                 /\ batch' = batch
                 /\ HandledBatches' = HandledBatches
                 /\ pc'[t] \in {"rec", "idle", "done"}
                 /\ pc'[t] # "rec" => held'[t] = <<>>
       /\ FailedNotRequeued']_vars

\* the handler failed on a batch, its goroutine has returned, and a later
\* invocation on the items added since has completed
C34_Witness ==
    /\ Len(handled) = 2
    /\ handled[1].err = HandlerErr(1)
    /\ handled[2].err # Pending
    /\ \A t \in Threads : pc[t] \notin {"call", "run", "rec"}


\* client c's Close call has returned
ClosedBy(c) == \E i \in 1 .. Len(hist[c]) : hist[c][i].kind = "Close"

\* C35: every Close call that has begun eventually returns, whatever the
\* producers, the Flush calls, the timer callbacks and the controller do
\* meanwhile, given that handler invocations return and goroutines that can
\* run do run.
C35_CloseReturns ==
    \A c \in Clients :
        (op[c].kind = "Close") ~> (op[c].kind # "Close" /\ ClosedBy(c))

\* the Close that performed the shutdown waited for the controller, flushed
\* the pending item and returned the handler's error, while the callback of
\* the timer that had fired has yet to run
C35_Witness ==
    /\ ctl = "exited"
    /\ \E c \in Clients : \E n \in 1 .. Len(handled) :
          /\ ClosedBy(c)
          /\ handled[n].kind = "Close"
          /\ handled[n].by = c
          /\ pc[c] = "idle"
    /\ \E t \in TimerIds : pc[t] = "fired"


\* C36: every batch handed to the handler, and every detached batch on its
\* way to the handler, holds at least one item, whichever of Add, Flush,
\* Close or a timer callback detached it.
C36_NoEmptyBatch ==
    /\ \A n \in 1 .. Len(handled) : Len(handled[n].batch) >= 1
    /\ \A t \in Threads : pc[t] \in {"call", "run", "rec"} => Len(held[t]) >= 1

\* a timer callback flushed the only item and a Flush call made afterwards
\* found the buffer empty: it returned without a handler invocation
C36_Witness ==
    /\ \E ci \in Calls : CallOf(ci).kind = "Flush"
    /\ Len(handled) = 1
    /\ handled[1].kind = "Timer"
    /\ \A c \in Clients : pc[c] = "idle"


\* C37: in every state in which the mutex is free the pending buffer holds
\* fewer than MaxBatchSize items, and every batch detached for the handler
\* holds at most MaxBatchSize items, whatever the controller has done to
\* currentBatchSize while the items were pending.
C37_WithinMaxBatchSize ==
    mu = {} =>
        /\ Len(batch) < cfg.MaxBatchSize
        /\ \A n \in 1 .. Len(handled) : Len(handled[n].batch) <= cfg.MaxBatchSize
        /\ \A t \in Threads : Len(held[t]) <= cfg.MaxBatchSize

\* items were pending, one fewer than MaxBatchSize, when the controller
\* lowered the threshold to one, and the next Add flushed a batch of
\* MaxBatchSize items, more than currentBatchSize
C37_Witness ==
    /\ currentBatchSize = 1
    /\ \E n \in 1 .. Len(handled) :
          /\ Len(handled[n].batch) = cfg.MaxBatchSize
          /\ handled[n].err = Pending


\* C38: once the Close call that set closed has returned, no goroutine is
\* inside the handler and no step starts a handler invocation.
C38_NoHandlerAfterClose ==
    [][ShutdownReturned => (InHandler = {} /\ Len(handled') = Len(handled))]_vars


\* the Close that performs the shutdown is at or past its final flush
FinalFlushBegun ==
    \/ ShutdownReturned
    \/ \E c \in ShuttingDown : pc[c] \in {"cflush", "call", "run", "rec"}

\* C39: a step that changes currentBatchSize is a tick of the running
\* controller: it changes nothing of the buffer, the timer, the ring, the
\* calls in progress and their results, so that no step of Add, Flush, Close,
\* a timer callback or the recording of a feedback changes it; the controller
\* has exited when Close starts its final flush and does not run again, so
\* currentBatchSize keeps its value from then on.
C39_OnlyControllerResizes ==
    [][/\ currentBatchSize' # currentBatchSize =>
             /\ ctl = "run"
             /\ UNCHANGED <<batch, timer, closed, recentFeedback, pc, op, held, handled,
                            hist, appended>>
       /\ ctl = "exited" => ctl' = "exited"
       /\ FinalFlushBegun =>
             /\ ctl = "exited"
             /\ currentBatchSize' = currentBatchSize]_vars

\* the controller changed the batch size after a flush had recorded its
\* feedback; Close then went through its final flush and has returned
C39_Witness ==
    /\ ShutdownReturned
    /\ currentBatchSize # cfg.InitialBatchSize
    /\ recentFeedback # <<>>
    /\ ctl = "exited"


\* the records of the three score ranges the repository documents
HighLoadFb == [cpu |-> 90, q |-> 150, er |-> 20, locks |-> 60]

\* min(x / d, 1) in percent
Normalized(x, d) == IF x >= d THEN 100 ELSE (100 * x) \div d

\* min(1, 0.60 cpu + 0.15 min(q / 100, 1) + 0.15 er + 0.10 min(locks / 50, 1))
\* in units of 1/10000, the ratios and the fields cpu and er in percent
ClaimedScore(lf) ==
    LET sum == 60 * lf.cpu + 15 * Normalized(lf.q, 100) + 15 * lf.er
               + 10 * Normalized(lf.locks, 50)
    IN  IF sum > 10000 THEN 10000 ELSE sum

====
